---- MODULE Spec2Model ----
(***************************************************************************)
(* A model of the SPIR-V utility generator (SPIRVUtilsGen.cpp) and of the *)
(* functions it generates: the bit-enum string codecs, the per-op         *)
(* serializer and deserializer, and the two dispatch routers; and of      *)
(* unpack<T> and PersistentArray<T> of xcore_utils.h.                      *)
(*                                                                         *)
(* The generated functions are modelled by interpreting the op or enum    *)
(* definition the way the emitted statements do: one model statement per  *)
(* emitted statement, in emission order.                                   *)
(***************************************************************************)
EXTENDS Integers, Sequences, FiniteSets, TLC

VARIABLES
    \* ---- bit-enum codec session
    enumCases,      \* enumAttr.getAllCases(): sequence of [symbol, value]
    symbol,         \* the argument of the generated symbol-to-string function
    str,            \* the string it returned (a sequence of characters)
    sym,            \* what the generated string-to-symbol function returned
    ephase          \* "init" | "stringified" | "symbolized"

enumVars == <<enumCases, symbol, str, sym, ephase>>

VARIABLES
    \* ---- one run of the generator (emitSerializationFns)
    defs,           \* the SPV_Op definitions iterated so far, each summarised
    utils,          \* getOpcode<> specialisations emitted, by op name
    serFn,          \* Serializer::processOp<> bodies emitted, by op name
    dSerFn,         \* branches of dispatchToAutogenSerialization, by op name
    deserFn,        \* Deserializer::processOp<> bodies emitted, by op name
    dDesFn,         \* cases of dispatchToAutogenDeserialization: [opcode, name]
    os,             \* the output stream of the generator
    gpc,            \* "loop" | "fatal" | "done"
    dispatched      \* result of the last call of the generated decode router

genVars == <<defs, utils, serFn, dSerFn, deserFn, dDesFn, os, gpc, dispatched>>

VARIABLES
    \* ---- one serializer / deserializer session on one op
    opDef,          \* the op definition whose generated processOp<> runs
    node,           \* the operation handed to Serializer::processOp<>
    enc,            \* the frame of Serializer::processOp<> (locals, position)
    valueIDMap,     \* Serializer::valueIDMap: value -> <id>
    nextID,         \* Serializer: the <id> getNextID() returns next
    functions,      \* Serializer::functions: the instructions encoded
    decorates,      \* the decorate records processDecoration has emitted
    words,          \* the words handed to Deserializer::processOp<>
    dec,            \* the frame of Deserializer::processOp<>
    valueMap,       \* Deserializer::valueMap: <id> -> value
    decorations     \* Deserializer::decorations: <id> -> attributes

serVars == <<node, enc, valueIDMap, nextID, functions, decorates>>
desVars == <<words, dec, valueMap, decorations>>
codecVars == <<opDef, serVars, desVars>>

VARIABLES
    \* ---- xcore_utils.h: one call of unpack<T>, one PersistentArray<T>
    sizeofT,        \* sizeof(T) of the unpack<T> called
    buffer,         \* the bytes at the argument of unpack<T>
    unp,            \* the frame of unpack<T>: i, retval, position
    array,          \* the PersistentArray<T> object: max_size_, size_, data_
    caller          \* the build and what the caller of the array has seen

kernelVars == <<sizeofT, buffer, unp, array, caller>>

vars == <<enumVars, genVars, codecVars, kernelVars>>

(***************************************************************************)
(* Bounds                                                                   *)
(***************************************************************************)
\* number of low bits of the underlying integer that the model enumerates
EnumWidth == 3
\* number of SPV_Op definitions in the record keeper
MaxDefs == 2
\* number of arguments of an op definition
MaxArgs == 2
\* number of words handed to a generated deserializer
MaxWords == 5
\* number of operands of a variadic group, of elements of an array attribute
MaxElems == 2
\* max_size of a PersistentArray
MaxSize == 2

(***************************************************************************)
(* Integers as bit vectors                                                  *)
(***************************************************************************)
RECURSIVE Pow2(_)
Pow2(k) == IF k = 0 THEN 1 ELSE 2 * Pow2(k - 1)

Bit(v, k) == (v \div Pow2(k)) % 2

RECURSIVE BitAndUpTo(_, _, _)
BitAndUpTo(a, b, k) ==
    IF k < 0 THEN 0
    ELSE Bit(a, k) * Bit(b, k) * Pow2(k) + BitAndUpTo(a, b, k - 1)

\* a & b
BitAnd(a, b) == BitAndUpTo(a, b, EnumWidth)

\* a | b
BitOr(a, b) == a + b - BitAnd(a, b)

\* a & ~b
BitClear(a, b) == a - BitAnd(a, b)

(***************************************************************************)
(* Strings as sequences of characters                                       *)
(***************************************************************************)
NoneStr == <<"N", "o", "n", "e">>
EmptyStr == <<>>
separator == <<"|">>

Digits == <<"0", "1", "2", "3", "4", "5", "6", "7", "8", "9">>

\* the symbol of the enumerant whose value is the single bit k
BitSymbol(k) == <<"F", Digits[k + 1]>>

\* llvm::join(strs, sep)
RECURSIVE Join(_, _)
Join(strs, sep) ==
    IF Len(strs) = 0 THEN EmptyStr
    ELSE IF Len(strs) = 1 THEN strs[1]
    ELSE strs[1] \o sep \o Join(Tail(strs), sep)

\* StringRef::find(sep) from position i (1-based); 0 when not found
RECURSIVE Find(_, _, _)
Find(s, sep, i) ==
    IF i + Len(sep) - 1 > Len(s) THEN 0
    ELSE IF SubSeq(s, i, i + Len(sep) - 1) = sep THEN i
    ELSE Find(s, sep, i + 1)

\* StringRef::split(out, sep): MaxSplit = -1, KeepEmpty = true
RECURSIVE Split(_, _)
Split(s, sep) ==
    LET p == Find(s, sep, 1)
    IN  IF p = 0 THEN <<s>>
        ELSE <<SubSeq(s, 1, p - 1)>> \o Split(SubSeq(s, p + Len(sep), Len(s)), sep)

(***************************************************************************)
(* llvm::Optional                                                           *)
(***************************************************************************)
None == [has |-> FALSE, val |-> 0]
Some(v) == [has |-> TRUE, val |-> v]

(***************************************************************************)
(* The generated symbol-to-string function of a bit enum                    *)
(***************************************************************************)
\* one emitted line per enumerant with a non-zero value, in declaration order:
\*   if (<value>u & val) { strs.push_back("<symbol>"); val &= ~<value>u; }
RECURSIVE SymToStrCases(_, _, _, _)
SymToStrCases(enumerants, i, val, strs) ==
    IF i > Len(enumerants) THEN [val |-> val, strs |-> strs]
    ELSE LET e == enumerants[i]
         IN  IF e.value # 0 /\ BitAnd(e.value, val) # 0
             THEN SymToStrCases(enumerants, i + 1, BitClear(val, e.value),
                                Append(strs, e.symbol))
             ELSE SymToStrCases(enumerants, i + 1, val, strs)

\* the same function without the unknown-bit test
SymToStrFnForBitEnum_NoUnknownCheck(enumerants, sep, symbolArg) ==
    IF symbolArg = 0 THEN NoneStr
    ELSE Join(SymToStrCases(enumerants, 1, symbolArg, <<>>).strs, sep)

SymToStrFnForBitEnum(enumerants, sep, symbolArg) ==
    IF symbolArg = 0 THEN NoneStr
    ELSE LET r == SymToStrCases(enumerants, 1, symbolArg, <<>>)
         IN  IF r.val # 0 THEN EmptyStr
             ELSE Join(r.strs, sep)

(***************************************************************************)
(* The generated string-to-symbol function of a bit enum                    *)
(***************************************************************************)
\* llvm::StringSwitch: the first .Case that matches, else .Default(None)
RECURSIVE StringSwitch(_, _, _)
StringSwitch(enumerants, i, token) ==
    IF i > Len(enumerants) THEN None
    ELSE IF enumerants[i].value # 0 /\ enumerants[i].symbol = token
         THEN Some(enumerants[i].value)
         ELSE StringSwitch(enumerants, i + 1, token)

\* for (auto symbol : symbols) { ...; if (bit) val |= *bit; else return None; }
RECURSIVE StrToSymLoop(_, _, _, _)
StrToSymLoop(enumerants, symbols, i, val) ==
    IF i > Len(symbols) THEN Some(val)
    ELSE LET bit == StringSwitch(enumerants, 1, symbols[i])
         IN  IF bit.has
             THEN StrToSymLoop(enumerants, symbols, i + 1, BitOr(val, bit.val))
             ELSE None

\* the same loop with "val = *bit" in place of "val |= *bit"
RECURSIVE StrToSymLoop_Assign(_, _, _, _)
StrToSymLoop_Assign(enumerants, symbols, i, val) ==
    IF i > Len(symbols) THEN Some(val)
    ELSE LET bit == StringSwitch(enumerants, 1, symbols[i])
         IN  IF bit.has
             THEN StrToSymLoop_Assign(enumerants, symbols, i + 1, bit.val)
             ELSE None

StrToSymFnForBitEnum_Assign(enumerants, sep, s) ==
    IF s = NoneStr THEN Some(0)
    ELSE StrToSymLoop_Assign(enumerants, Split(s, sep), 1, 0)

StrToSymFnForBitEnum(enumerants, sep, s) ==
    IF s = NoneStr THEN Some(0)
    ELSE StrToSymLoop(enumerants, Split(s, sep), 1, 0)

(***************************************************************************)
(* Bit-enum definitions: the None enumerant (or not), then any ordering of  *)
(* any subset of the single-bit enumerants                                  *)
(***************************************************************************)
EnumBits == 0 .. (EnumWidth - 1)

BitCase(k) == [symbol |-> BitSymbol(k), value |-> Pow2(k)]
NoneCase == [symbol |-> NoneStr, value |-> 0]

IsInjective(f) == \A i, j \in DOMAIN f : f[i] = f[j] => i = j

BitOrders ==
    UNION { { f \in [1 .. n -> EnumBits] : IsInjective(f) } : n \in 0 .. EnumWidth }

BitEnums ==
    { [i \in 1 .. Len(f) |-> BitCase(f[i])] : f \in BitOrders }
    \cup { <<NoneCase>> \o [i \in 1 .. Len(f) |-> BitCase(f[i])] : f \in BitOrders }

(***************************************************************************)
(* Op definitions as the generator sees them (mlir::tblgen::Operator)       *)
(***************************************************************************)
\* mlir::tblgen::Attribute: its def name, isEnumAttr(), isOptional() and, for
\* an optional attribute, getBaseAttr()
PlainAttr(defName, isEnum) ==
    [defName |-> defName, isEnumAttr |-> isEnum, isOptional |-> FALSE,
     baseDefName |-> defName, baseIsEnumAttr |-> isEnum]

OptionalAttr(defName, isEnum) ==
    [defName |-> "OptionalAttr", isEnumAttr |-> FALSE, isOptional |-> TRUE,
     baseDefName |-> defName, baseIsEnumAttr |-> isEnum]

\* attr.getBaseAttr()
getBaseAttr(attr) ==
    [defName |-> attr.baseDefName, isEnumAttr |-> attr.baseIsEnumAttr,
     isOptional |-> FALSE,
     baseDefName |-> attr.baseDefName, baseIsEnumAttr |-> attr.baseIsEnumAttr]

\* the attribute handed to emitAttribute(De)serialization:
\*   attr->attr.isOptional() ? attr->attr.getBaseAttr() : attr->attr
AttrOrBase(attr) == IF attr.isOptional THEN getBaseAttr(attr) ELSE attr

\* an argument: a NamedTypeConstraint (an operand) or a NamedAttribute
OperandArg(variadic) == [isOperand |-> TRUE, isVariadic |-> variadic]
AttrArg(attr) == [isOperand |-> FALSE, attr |-> attr]

Attributes ==
    { PlainAttr("I32Attr", FALSE), OptionalAttr("I32Attr", FALSE),
      PlainAttr("SPV_EnumAttr", TRUE), OptionalAttr("SPV_EnumAttr", TRUE),
      PlainAttr("I32ArrayAttr", FALSE), OptionalAttr("I32ArrayAttr", FALSE),
      PlainAttr("StrAttr", FALSE), OptionalAttr("F32Attr", FALSE) }

\* the attributes the generator run draws from
GenAttributes ==
    { PlainAttr("I32Attr", FALSE), OptionalAttr("SPV_EnumAttr", TRUE),
      PlainAttr("I32ArrayAttr", FALSE),
      PlainAttr("StrAttr", FALSE), OptionalAttr("F32Attr", FALSE) }

ArgPool ==
    { OperandArg(v) : v \in BOOLEAN } \cup { AttrArg(a) : a \in GenAttributes }

ArgLists == UNION { [1 .. n -> ArgPool] : n \in 0 .. MaxArgs }

\* the numbers of results an op definition may declare
ResultCounts == {0, 1, 2}

OpDefs ==
    [hasOpcode : BOOLEAN, autogenSerialization : BOOLEAN,
     numResults : ResultCounts, args : ArgLists]

(***************************************************************************)
(* The generator: what each emit function does to the generation run        *)
(***************************************************************************)
\* emitAttributeSerialization: the statement emitted inside "if (attr)",
\* or "fatal" for PrintFatalError
emitAttributeSerialization(attr) ==
    IF attr.defName = "I32ArrayAttr" THEN "pushEachElem"
    ELSE IF attr.isEnumAttr \/ attr.defName = "I32Attr" THEN "pushValue"
    ELSE "fatal"

\* the argument loop of emitSerializationFunction
RECURSIVE SerializationArgs(_, _)
SerializationArgs(args, i) ==
    IF i > Len(args) THEN "ok"
    ELSE IF args[i].isOperand THEN SerializationArgs(args, i + 1)
    ELSE IF emitAttributeSerialization(AttrOrBase(args[i].attr)) = "fatal"
         THEN "fatal"
         ELSE SerializationArgs(args, i + 1)

\* the same function without the early return on autogenSerialization = 0
emitSerializationFunction_AlwaysEmit(op) ==
    IF op.numResults # 1 /\ op.numResults # 0 THEN "fatal"
    ELSE SerializationArgs(op.args, 1)

\* emitSerializationFunction: "skipped" | "ok" (a body was written) | "fatal"
emitSerializationFunction(op) ==
    IF ~op.autogenSerialization THEN "skipped"
    ELSE IF op.numResults # 1 /\ op.numResults # 0 THEN "fatal"
    ELSE SerializationArgs(op.args, 1)

\* emitAttributeDeserialization: the statement emitted, or "fatal"
emitAttributeDeserialization(attr) ==
    IF attr.defName = "I32ArrayAttr" THEN "readRemaining"
    ELSE IF attr.isEnumAttr \/ attr.defName = "I32Attr" THEN "readOne"
    ELSE "fatal"

\* the same loop without the test "i != e - 1" on a variadic operand
RECURSIVE DeserializationArgs_NoVariadicCheck(_, _)
DeserializationArgs_NoVariadicCheck(args, i) ==
    IF i > Len(args) THEN "ok"
    ELSE IF args[i].isOperand
         THEN DeserializationArgs_NoVariadicCheck(args, i + 1)
    ELSE IF emitAttributeDeserialization(AttrOrBase(args[i].attr)) = "fatal"
         THEN "fatal"
         ELSE DeserializationArgs_NoVariadicCheck(args, i + 1)

\* the argument loop of emitDeserializationFunction
RECURSIVE DeserializationArgs(_, _)
DeserializationArgs(args, i) ==
    IF i > Len(args) THEN "ok"
    ELSE IF args[i].isOperand
         THEN IF args[i].isVariadic /\ i # Len(args) THEN "fatal"
              ELSE DeserializationArgs(args, i + 1)
    ELSE IF emitAttributeDeserialization(AttrOrBase(args[i].attr)) = "fatal"
         THEN "fatal"
         ELSE DeserializationArgs(args, i + 1)

\* emitDeserializationFunction: "skipped" | "ok" | "fatal"
emitDeserializationFunction(op) ==
    IF ~op.autogenSerialization THEN "skipped"
    ELSE IF op.numResults # 1 /\ op.numResults # 0 THEN "fatal"
    ELSE DeserializationArgs(op.args, 1)

\* initDispatchDeserializationFn .. finalizeDispatchDeserializationFn with
\* "default: return success();"
finalizeDispatchDeserializationFn_Success(cases) ==
    [cases |-> cases, otherwise |-> "success"]

\* the router once finalizeDispatchDeserializationFn has closed the switch:
\* its cases, and what the code after the switch returns
finalizeDispatchDeserializationFn(cases) ==
    [cases |-> cases, otherwise |-> "emitError"]

\* finalizeDispatchSerializationFn: the chain of isa<> tests and its last else
finalizeDispatchSerializationFn(branches) ==
    [branches |-> branches, otherwise |-> "emitError"]

\* the generated dispatchToAutogenDeserialization(opcode, words)
RECURSIVE SwitchOpcode(_, _, _)
SwitchOpcode(cases, i, opcode) ==
    IF i > Len(cases) THEN 0
    ELSE IF cases[i].opcode = opcode THEN cases[i].name
    ELSE SwitchOpcode(cases, i + 1, opcode)

dispatchToAutogenDeserialization(router, opcode) ==
    LET name == SwitchOpcode(router.cases, 1, opcode)
    IN  IF name # 0
        THEN [result |-> "processOp", name |-> name, opcode |-> opcode]
        ELSE IF router.otherwise = "emitError"
        THEN [result |-> "UnhandledOpcode", name |-> 0, opcode |-> opcode]
        ELSE [result |-> "success", name |-> 0, opcode |-> opcode]

(***************************************************************************)
(* What an op definition looks like, stated on the definition itself        *)
(***************************************************************************)
SupportedAttrKinds == {"I32Attr", "I32ArrayAttr"}

HasUnsupportedAttr(op) ==
    \E i \in DOMAIN op.args :
        /\ ~op.args[i].isOperand
        /\ op.args[i].attr.baseDefName \notin SupportedAttrKinds
        /\ ~op.args[i].attr.baseIsEnumAttr

HasNonFinalVariadic(op) ==
    \E i \in DOMAIN op.args :
        /\ op.args[i].isOperand
        /\ op.args[i].isVariadic
        /\ i < Len(op.args)

\* what the run remembers of a definition it has iterated
Summary(op, name) ==
    [name |-> name, opcode |-> name,
     hasOpcode |-> op.hasOpcode,
     autogenSerialization |-> op.autogenSerialization,
     shapeDefect |-> \/ op.numResults > 1
                     \/ HasUnsupportedAttr(op)
                     \/ HasNonFinalVariadic(op)]

EmptyOutput ==
    [header |-> FALSE, utils |-> <<>>, serFn |-> <<>>, deserFn |-> <<>>,
     dSerFn |-> finalizeDispatchSerializationFn(<<>>),
     dDesFn |-> finalizeDispatchDeserializationFn(<<>>),
     closed |-> FALSE]

NotDispatched == [result |-> "none", name |-> 0, opcode |-> 0]

(***************************************************************************)
(* The ops the generated functions exist for, and their operations          *)
(***************************************************************************)
\* the attributes of the ops of a session
SessionAttributes ==
    { PlainAttr("I32Attr", FALSE), OptionalAttr("SPV_EnumAttr", TRUE),
      PlainAttr("I32ArrayAttr", FALSE) }

SessionArgLists ==
    UNION { [1 .. n -> { OperandArg(v) : v \in BOOLEAN }
                       \cup { AttrArg(a) : a \in SessionAttributes }]
            : n \in 0 .. MaxArgs }

\* a processOp<> pair exists for the definitions both emit functions accept
SessionOps ==
    { o \in [hasOpcode : {TRUE}, autogenSerialization : {TRUE},
             numResults : ResultCounts, args : SessionArgLists] :
        /\ emitSerializationFunction(o) = "ok"
        /\ emitDeserializationFunction(o) = "ok" }

\* attr->name of the NamedAttribute at each argument position;
\* the other attribute names an operation may carry
ArgNames == <<"a1", "a2", "a3", "a4", "a5">>
ExtraNames == {"d1", "x1"}

\* IntegerAttr and ArrayAttr values
IntegerAttr(v) == [isArray |-> FALSE, value |-> v, elems |-> <<>>]
ArrayAttr(elems) == [isArray |-> TRUE, value |-> 0, elems |-> elems]

NamedAttr(name, attr) == [name |-> name, attr |-> attr]

(***************************************************************************)
(* Deserializer services the generated code calls                           *)
(***************************************************************************)
NullType == "null"
NullValue == "null"

\* the types registered by the instructions deserialized before this one
TypeTable == [id \in {1} |-> "i32"]

\* Deserializer::getType(id)
getType(id) == IF id \in DOMAIN TypeTable THEN TypeTable[id] ELSE NullType

\* Deserializer::getValue(id)
getValue(values, id) == IF id \in DOMAIN values THEN values[id] ELSE NullValue

(***************************************************************************)
(* The generated Deserializer::processOp<Op>(words), statement by statement *)
(***************************************************************************)
NoOp == [resultTypes |-> <<>>, operands |-> <<>>, attributes |-> <<>>, built |-> FALSE]

\* the frame on entry: wordIndex = 0, nothing read
DecEntry(o) ==
    [pc |-> IF o.numResults = 1 THEN "type"
            ELSE IF Len(o.args) > 0 THEN "arg" ELSE "check",
     i |-> 1, wordIndex |-> 0,
     resultTypes |-> <<>>, valueID |-> 0,
     operands |-> <<>>, attributes |-> <<>>,
     inLoop |-> FALSE, attrListElems |-> <<>>,
     reads |-> <<>>,
     status |-> "running", created |-> NoOp]

DecIdle == [DecEntry([numResults |-> 0, args |-> <<>>]) EXCEPT !.pc = "off"]

\* return emitError(...)
DecError(d, what) == [d EXCEPT !.pc = "done", !.status = what]

\* words[wordIndex]: the index is recorded in the frame; past the end of the
\* words the read gives whatever is there
WordAt(w, k) == IF k < Len(w) THEN w[k + 1] ELSE 0

Read(d) == [d EXCEPT !.reads = Append(d.reads, d.wordIndex)]

\* the statements of the next argument, or the word-count check after the last
DecNextArg(o, d) ==
    IF d.i + 1 > Len(o.args) THEN [d EXCEPT !.pc = "check", !.i = d.i + 1]
    ELSE [d EXCEPT !.pc = "arg", !.i = d.i + 1]

\* if (wordIndex >= words.size()) return emitError("expected result type <id>")
\* auto ty = getType(words[wordIndex]); if (!ty) return emitError(...)
\* resultTypes.push_back(ty); wordIndex++;
DecResultType(o, w, d) ==
    IF d.wordIndex >= Len(w) THEN DecError(d, "TruncatedStream")
    ELSE LET ty == getType(WordAt(w, d.wordIndex))
         IN  IF ty = NullType THEN DecError(Read(d), "UnknownType")
             ELSE [Read(d) EXCEPT !.resultTypes = Append(d.resultTypes, ty),
                            !.wordIndex = d.wordIndex + 1,
                            !.pc = "id"]

\* the same statements without the test before the read of the result <id>
DecResultID_NoCheck(o, w, d) ==
    LET next == IF Len(o.args) > 0 THEN "arg" ELSE "check"
    IN  [Read(d) EXCEPT !.valueID = WordAt(w, d.wordIndex),
                        !.wordIndex = d.wordIndex + 1,
                        !.pc = next]

\* if (wordIndex >= words.size()) return emitError("expected result <id>")
\* uint32_t valueID = words[wordIndex++];
DecResultID(o, w, d) ==
    IF d.wordIndex >= Len(w) THEN DecError(d, "TruncatedStream")
    ELSE [Read(d) EXCEPT !.valueID = WordAt(w, d.wordIndex),
                         !.wordIndex = d.wordIndex + 1,
                         !.pc = IF Len(o.args) > 0 THEN "arg" ELSE "check"]

\* an operand argument:
\*   variadic:  for (; wordIndex < words.size(); ++wordIndex) { body }
\*   otherwise: if (wordIndex < words.size()) { body; wordIndex++; }
\*   body: auto arg = getValue(words[wordIndex]);
\*         if (!arg) return emitError("unknown result <id>");
\*         operands.push_back(arg);
\* one call is one execution of the test and, when it holds, of the body
DecOperandBody(o, w, values, d) ==
    LET arg == getValue(values, WordAt(w, d.wordIndex))
    IN  IF arg = NullValue THEN DecError(Read(d), "UnknownValueId")
        ELSE LET read == [Read(d) EXCEPT !.operands = Append(d.operands, arg),
                                         !.wordIndex = d.wordIndex + 1]
             IN  IF o.args[d.i].isVariadic THEN read ELSE DecNextArg(o, read)

\* the same statements without the test of an operand that is not variadic
DecOperand_NoTest(o, w, values, d) ==
    IF o.args[d.i].isVariadic /\ d.wordIndex >= Len(w) THEN DecNextArg(o, d)
    ELSE DecOperandBody(o, w, values, d)

DecOperand(o, w, values, d) ==
    IF d.wordIndex < Len(w) THEN DecOperandBody(o, w, values, d)
    ELSE DecNextArg(o, d)

\* an attribute argument: if (wordIndex < words.size()) { statement }, the
\* statement being the one emitAttributeDeserialization wrote:
\*   readOne:       attributes.push_back(name, getI32IntegerAttr(words[wordIndex++]))
\*   readRemaining: while (wordIndex < words.size())
\*                    attrListElems.push_back(getI32IntegerAttr(words[wordIndex++]));
\*                  attributes.push_back(name, getArrayAttr(attrListElems))
\* one call is one execution of a test and of what it guards
DecAttribute(o, w, d) ==
    LET name == ArgNames[d.i]
        stmt == emitAttributeDeserialization(AttrOrBase(o.args[d.i].attr))
    IN  IF d.inLoop
        THEN IF d.wordIndex < Len(w)
             THEN [Read(d) EXCEPT !.attrListElems =
                                      Append(d.attrListElems, WordAt(w, d.wordIndex)),
                                  !.wordIndex = d.wordIndex + 1]
             ELSE DecNextArg(o,
                    [d EXCEPT !.attributes =
                                  Append(d.attributes,
                                         NamedAttr(name, ArrayAttr(d.attrListElems))),
                              !.inLoop = FALSE,
                              !.attrListElems = <<>>])
        ELSE IF d.wordIndex < Len(w)
             THEN IF stmt = "readRemaining"
                  THEN [d EXCEPT !.inLoop = TRUE, !.attrListElems = <<>>]
                  ELSE DecNextArg(o,
                         [Read(d) EXCEPT !.attributes =
                                             Append(d.attributes,
                                                    NamedAttr(name,
                                                              IntegerAttr(WordAt(w, d.wordIndex)))),
                                         !.wordIndex = d.wordIndex + 1])
             ELSE DecNextArg(o, d)

\* the same statements without the test after the arguments
DecCheckWords_NoCheck(o, w, d) ==
    [d EXCEPT !.pc = IF o.numResults = 1 THEN "decorate" ELSE "create"]

\* if (wordIndex != words.size())
\*   return emitError("found more operands than expected ... only N of M processed")
DecCheckWords(o, w, d) ==
    IF d.wordIndex # Len(w) THEN DecError(d, "TrailingData")
    ELSE [d EXCEPT !.pc = IF o.numResults = 1 THEN "decorate" ELSE "create"]

\* the same statements with the test false
DecImportDecorations_Skip(table, d) ==
    [d EXCEPT !.pc = "create"]

\* if (decorations.count(valueID))
\*   attributes.append(decorations[valueID].getAttrs())
DecImportDecorations(table, d) ==
    [d EXCEPT !.attributes = IF d.valueID \in DOMAIN table
                             THEN d.attributes \o table[d.valueID]
                             ELSE d.attributes,
              !.pc = "create"]

\* auto op = opBuilder.create<Op>(unknownLoc, resultTypes, operands, attributes);
\* return success();
DecCreate(d) ==
    [d EXCEPT !.created = [resultTypes |-> d.resultTypes, operands |-> d.operands,
                           attributes |-> d.attributes, built |-> TRUE],
              !.status = "success",
              !.pc = "done"]

\* the next statement of the function, whatever it is
DecStep(o, w, values, table, d) ==
    CASE d.pc = "type" -> DecResultType(o, w, d)
      [] d.pc = "id" -> DecResultID(o, w, d)
      [] d.pc = "arg" -> IF o.args[d.i].isOperand THEN DecOperand(o, w, values, d)
                         ELSE DecAttribute(o, w, d)
      [] d.pc = "check" -> DecCheckWords(o, w, d)
      [] d.pc = "decorate" -> DecImportDecorations(table, d)
      [] d.pc = "create" -> DecCreate(d)
      [] OTHER -> d

\* the function run to its return
RECURSIVE DecRun(_, _, _, _, _)
DecRun(o, w, values, table, d) ==
    IF d.pc \in {"done", "off"} THEN d
    ELSE DecRun(o, w, values, table, DecStep(o, w, values, table, d))

(***************************************************************************)
(* Operations: what Serializer::processOp<Op> reads from its argument       *)
(***************************************************************************)
\* the values with an <id> when the operation is serialized, in the order of
\* the <id>s; "u" is a value with none
ValueNames == <<"v1", "v2", "v3", "v4", "v5", "v6">>
UndefinedValue == "u"

\* the <id> of the one type registered, then those of the values
InitialIDs == [v \in { ValueNames[k] : k \in DOMAIN ValueNames } |->
                  1 + CHOOSE k \in DOMAIN ValueNames : ValueNames[k] = v]
InitialNextID == Len(ValueNames) + 2

\* op.getODSOperands(k): one value, or for a variadic operand any number
OperandGroups(arg, k) ==
    IF arg.isVariadic
    THEN UNION { { g \in [1 .. n -> {UndefinedValue} \cup { ValueNames[j] : j \in k .. (k + n) }] :
                     \A j \in 1 .. n : g[j] \in {UndefinedValue, ValueNames[k + j - 1]} }
                 : n \in 0 .. MaxElems }
    ELSE { <<v>> : v \in {ValueNames[k], UndefinedValue} }

\* the attribute of the argument at position i, when the operation has it
AttrValues(arg, i) ==
    IF arg.attr.baseDefName = "I32ArrayAttr"
    THEN { ArrayAttr([j \in 1 .. n |-> 20 + j]) : n \in 0 .. MaxElems }
    ELSE { IntegerAttr(0), IntegerAttr(10 + i) }

AttrChoices(arg, i) ==
    { <<NamedAttr(ArgNames[i], a)>> : a \in AttrValues(arg, i) }
    \cup (IF arg.attr.isOptional THEN {<<>>} ELSE {})

\* the operand groups and argument attributes of the operations of an op
RECURSIVE ArgChoices(_, _, _)
ArgChoices(args, i, k) ==
    IF i > Len(args) THEN { [operands |-> <<>>, attrs |-> <<>>] }
    ELSE IF args[i].isOperand
    THEN { [operands |-> <<g>> \o r.operands, attrs |-> r.attrs] :
             g \in OperandGroups(args[i], k + 1), r \in ArgChoices(args, i + 1, k + 1) }
    ELSE { [operands |-> r.operands, attrs |-> a \o r.attrs] :
             a \in AttrChoices(args[i], i), r \in ArgChoices(args, i + 1, k) }

\* attributes that are no argument of the op
ExtraAttrs == { <<>> } \cup { <<NamedAttr(n, IntegerAttr(30))>> : n \in ExtraNames }

ResultTypes(o) == IF o.numResults = 1 THEN {"i32", "unsupported"} ELSE {NullType}

Operations(o) ==
    { [type |-> t, operands |-> r.operands, attrs |-> r.attrs \o x] :
        t \in ResultTypes(o), r \in ArgChoices(o.args, 1, 0), x \in ExtraAttrs }

\* op.getAttr(name): the attribute, or null
NullAttr == [isArray |-> FALSE, value |-> 0, elems |-> <<>>, null |-> TRUE]

getAttr(nd, name) ==
    IF \E j \in DOMAIN nd.attrs : nd.attrs[j].name = name
    THEN nd.attrs[CHOOSE j \in DOMAIN nd.attrs : nd.attrs[j].name = name].attr
    ELSE NullAttr

(***************************************************************************)
(* Serializer services the generated code calls                             *)
(***************************************************************************)
\* Serializer::processType(loc, type, id): the <id> of the type, 0 on failure
TypeIDs == [t \in {"i32"} |-> 1]

processType(type) == IF type \in DOMAIN TypeIDs THEN TypeIDs[type] ELSE 0

\* Serializer::findValueID(value): the <id> of the value, 0 when it has none
findValueID(ids, v) == IF v \in DOMAIN ids THEN ids[v] ELSE 0

\* Serializer::processDecoration(loc, resultID, attr): fails on an attribute
\* that is no decoration
UndecorableNames == {"x1"}

processDecoration(resultID, attr) ==
    IF attr.name \in UndecorableNames THEN "failure" ELSE "success"

(***************************************************************************)
(* The generated Serializer::processOp<Op>(op), statement by statement      *)
(***************************************************************************)
EncEntry(o) ==
    [pc |-> IF o.numResults = 1 THEN "result"
            ELSE IF Len(o.args) > 0 THEN "arg" ELSE "encode",
     i |-> 1, operandNum |-> 0,
     operands |-> <<>>, elidedAttrs |-> <<>>, resultID |-> 0,
     errors |-> <<>>, status |-> "running"]

EncNextArg(o, e) ==
    IF e.i + 1 > Len(o.args) THEN [e EXCEPT !.pc = "encode", !.i = e.i + 1]
    ELSE [e EXCEPT !.pc = "arg", !.i = e.i + 1]

\* if (failed(processType(op.getLoc(), op.getType(), resultTypeID)))
\*   return failure();
\* operands.push_back(resultTypeID);
\* auto resultID = getNextID(); ...; operands.push_back(resultID);
EncResult(o, nd, next, e) ==
    LET resultTypeID == processType(nd.type)
    IN  IF resultTypeID = 0
        THEN [e EXCEPT !.pc = "done", !.status = "failure",
                       !.errors = Append(e.errors, "UnresolvedType")]
        ELSE [e EXCEPT !.operands = e.operands \o <<resultTypeID, next>>,
                       !.resultID = next,
                       !.pc = IF Len(o.args) > 0 THEN "arg" ELSE "encode"]

\* for (auto arg : op.getODSOperands(operandNum)) {
\*   auto argID = findValueID(arg);
\*   if (!argID) { emitError(op.getLoc(), "operand N has a use before def"); }
\*   operands.push_back(argID);
\* }
RECURSIVE EncOperandLoop(_, _, _, _)
EncOperandLoop(ids, group, j, e) ==
    IF j > Len(group) THEN e
    ELSE LET argID == findValueID(ids, group[j])
             told == IF argID = 0 THEN Append(e.errors, "UseBeforeDef") ELSE e.errors
         IN  EncOperandLoop(ids, group, j + 1,
                            [e EXCEPT !.errors = told,
                                      !.operands = Append(e.operands, argID)])

EncOperand(o, nd, ids, e) ==
    LET looped == EncOperandLoop(ids, nd.operands[e.operandNum + 1], 1, e)
    IN  EncNextArg(o, [looped EXCEPT !.operandNum = e.operandNum + 1])

\* auto attr = op.getAttr("<name>");
\* if (attr) { the statement emitAttributeSerialization wrote:
\*   pushEachElem: for (auto attrElem : attr) operands.push_back(attrElem)
\*   pushValue:    operands.push_back(attr) }
\* elidedAttrs.push_back("<name>");
EncAttribute(o, nd, e) ==
    LET name == ArgNames[e.i]
        stmt == emitAttributeSerialization(AttrOrBase(o.args[e.i].attr))
        attr == getAttr(nd, name)
        pushed == IF attr = NullAttr THEN <<>>
                  ELSE IF stmt = "pushEachElem" THEN attr.elems
                  ELSE <<attr.value>>
    IN  EncNextArg(o, [e EXCEPT !.operands = e.operands \o pushed,
                                !.elidedAttrs = Append(e.elidedAttrs, name)])

\* encodeInstructionInto(functions, spirv::getOpcode<Op>(), operands);
EncInstruction(o, e) ==
    [e EXCEPT !.pc = IF o.numResults = 1 THEN "decorate" ELSE "done",
              !.status = IF o.numResults = 1 THEN "running" ELSE "success"]

\* for (auto attr : op.getAttrs()) {
\*   if (llvm::any_of(elidedAttrs, ...is(elided))) continue;
\*   if (failed(processDecoration(op.getLoc(), resultID, attr))) return failure();
\* }
\* the records emitted, and whether the loop ran to its end
RECURSIVE EncDecorationLoop(_, _, _, _, _)
EncDecorationLoop(attrs, j, elided, resultID, emitted) ==
    IF j > Len(attrs) THEN [emitted |-> emitted, status |-> "success"]
    ELSE IF \E x \in DOMAIN elided : elided[x] = attrs[j].name
    THEN EncDecorationLoop(attrs, j + 1, elided, resultID, emitted)
    ELSE IF processDecoration(resultID, attrs[j]) = "failure"
    THEN [emitted |-> emitted, status |-> "failure"]
    ELSE EncDecorationLoop(attrs, j + 1, elided, resultID,
                           Append(emitted, [id |-> resultID, attr |-> attrs[j]]))

\* the same loop with nothing elided
EncDecorations_NothingElided(nd, e) ==
    EncDecorationLoop(nd.attrs, 1, <<>>, e.resultID, <<>>)

EncDecorations(nd, e) ==
    EncDecorationLoop(nd.attrs, 1, e.elidedAttrs, e.resultID, <<>>)

(***************************************************************************)
(* Session values                                                           *)
(***************************************************************************)
\* opDef.getResult() of the operation serialized or created
ResultValue == "r"

\* the words of a stream: 0 is no <id>, 1 the <id> of a type, 2 of a value
StreamWords == {0, 1, 2}
StreamValues == [id \in {2} |-> "v1"]

WordLists == UNION { [1 .. n -> StreamWords] : n \in 0 .. MaxWords }

NoDecorations == [id \in {} |-> <<>>]

NoNode == [type |-> NullType, operands |-> <<>>, attrs |-> <<>>]
EncIdle == [pc |-> "off"]

SerializerIdle ==
    /\ node = NoNode
    /\ enc = EncIdle
    /\ valueIDMap = <<>>
    /\ nextID = 0
    /\ functions = <<>>
    /\ decorates = <<>>

CodecIdle ==
    /\ opDef = [numResults |-> 0, args |-> <<>>]
    /\ SerializerIdle
    /\ words = <<>>
    /\ dec = DecIdle
    /\ valueMap = <<>>
    /\ decorations = NoDecorations

\* a deserializer about to run processOp<Op> on some words
StreamInit ==
    /\ opDef \in SessionOps
    /\ SerializerIdle
    /\ words \in WordLists
    /\ dec = DecEntry(opDef)
    /\ valueMap = StreamValues
    /\ decorations = NoDecorations

\* a deserializer session in which decorations are registered before and
\* after the call of processOp<Op>
DecorationNames == {"d1", "d2"}
DecoratedIDs == {2}
SessionWordLists == UNION { [1 .. n -> StreamWords] : n \in 0 .. (MaxWords - 2) }

\* Deserializer::processDecoration: decorations[id] gets one more attribute
processDecorationWords(table, id, attr) ==
    [x \in DOMAIN table \cup {id} |->
        IF x = id
        THEN (IF id \in DOMAIN table THEN table[id] ELSE <<>>) \o <<attr>>
        ELSE table[x]]

SessionInit ==
    /\ opDef \in SessionOps
    /\ SerializerIdle
    /\ words \in SessionWordLists
    /\ dec = DecIdle
    /\ valueMap = StreamValues
    /\ decorations = NoDecorations

\* spirv::getOpcode<Op>() of the op of the session
SessionOpcode == "Op"

\* a serializer about to run processOp<Op> on an operation of the op
RoundTripInit ==
    /\ opDef \in SessionOps
    /\ node \in Operations(opDef)
    /\ enc = EncEntry(opDef)
    /\ valueIDMap = InitialIDs
    /\ nextID = InitialNextID
    /\ functions = <<>>
    /\ decorates = <<>>
    /\ words = <<>>
    /\ dec = DecIdle
    /\ valueMap = <<>>
    /\ decorations = NoDecorations

(***************************************************************************)
(* xcore_utils.h: unpack<T>(buffer)                                         *)
(* Integers are sequences of bytes, least significant first                 *)
(***************************************************************************)
\* sizeof(T) of the integer types, sizeof(int), and the bytes of a buffer
IntegerSizes == {1, 2, 4, 8}
SizeofInt == 4
ByteValues == {0, 1, 255}

\* a | b on bytes
ByteOr(a, b) ==
    IF a = 0 THEN b
    ELSE IF b = 0 \/ a = b THEN a
    ELSE a + b - BitAndUpTo(a, b, 7)

Zero(n) == [k \in 1 .. n |-> 0]

\* the int `byte << count` for a count below the width of int: the byte
\* moves up count / 8 bytes (into the sign bit too, the value wraps)
ShiftLeft(byte, count) ==
    [k \in 1 .. SizeofInt |-> IF k = (count \div 8) + 1 THEN byte ELSE 0]

\* buffer[i] << (8 * i): buffer[i] is promoted to int; a count of the width
\* of int or more is undefined, and builds give the shift by the count
\* modulo the width or zero
ShiftOutcomes(byte, count) ==
    IF count < 8 * SizeofInt THEN { ShiftLeft(byte, count) }
    ELSE { ShiftLeft(byte, count % (8 * SizeofInt)), Zero(SizeofInt) }

\* the conversion of an int to T: the low bytes, the sign carried upward
IntToT(int, n) ==
    [k \in 1 .. n |-> IF k <= SizeofInt THEN int[k]
                      ELSE IF int[SizeofInt] >= 128 THEN 255 ELSE 0]

\* retval |= shifted
OrAssign(retval, shifted) ==
    LET x == IntToT(shifted, Len(retval))
    IN  [k \in 1 .. Len(retval) |-> ByteOr(retval[k], x[k])]

\* T retval = 0; int i = 0;
UnpackEntry(n) == [i |-> 0, retval |-> Zero(n), pc |-> "loop"]

UnpackIdle == [i |-> 0, retval |-> <<>>, pc |-> "off"]

\* for (...; i < sizeof(T); ++i) retval |= buffer[i] << (8 * i);
\* return retval;
UnpackStep(n, bytes, u, shifted) ==
    IF u.i < n
    THEN [u EXCEPT !.retval = OrAssign(u.retval, shifted), !.i = u.i + 1]
    ELSE [u EXCEPT !.pc = "returned"]

Buffers(n) == [1 .. n -> ByteValues]

UnpackInit ==
    /\ sizeofT \in IntegerSizes
    /\ buffer \in Buffers(sizeofT)
    /\ unp = UnpackEntry(sizeofT)

UnpackOff ==
    /\ sizeofT = 0
    /\ buffer = <<>>
    /\ unp = UnpackIdle

(***************************************************************************)
(* xcore_utils.h: PersistentArray<T>                                        *)
(***************************************************************************)
\* the elements appended, and what a cell holds before it is written
Elements == {1, 2}
Uninitialized == 0

NullPtr == [null |-> TRUE, cells |-> <<>>]

\* context->AllocatePersistentBuffer(context, sizeof(T) * max_size)
AllocatePersistentBuffer(n) == [null |-> FALSE, cells |-> [k \in 1 .. n |-> Uninitialized]]

\* PersistentArray() : size_(0), max_size_(0), data_(nullptr) {}
PersistentArray == [max_size_ |-> 0, size_ |-> 0, data_ |-> NullPtr]

\* the caller: whether the build has NDEBUG, the assertion that failed,
\* whether allocate was called, the appends made, the last element read,
\* whether a call was outside the use the class is written for, whether a
\* write went outside the buffer
CallerEntry(ndebug) ==
    [pc |-> "on", ndebug |-> ndebug, failed |-> "none", allocated |-> FALSE,
     limit |-> 0, appends |-> 0, read |-> Uninitialized, misused |-> FALSE,
     corrupted |-> FALSE]

CallerIdle == [CallerEntry(TRUE) EXCEPT !.pc = "off"]

\* assert(cond): in a build without NDEBUG a false condition aborts
AssertFails(c, cond) == ~c.ndebug /\ ~cond

Abort(c, what) == [c EXCEPT !.failed = what, !.pc = "aborted"]

\* void allocate(TfLiteContext *context, size_t max_size):
\*   assert(data_ == nullptr); assert(max_size_ > 0);
\*   max_size_ = max_size; data_ = AllocatePersistentBuffer(...);
\* the assertion that fails, or "none"
allocateAssertion(a, c, n) ==
    IF AssertFails(c, a.data_ = NullPtr) THEN "data_ == nullptr"
    ELSE IF AssertFails(c, a.max_size_ > 0) THEN "max_size_ > 0"
    ELSE "none"

allocate(a, n) ==
    [a EXCEPT !.max_size_ = n, !.data_ = AllocatePersistentBuffer(n)]

\* void append(const T &element): assert(size_ < max_size_);
\*   data_[size_++] = element;
\* a write outside the buffer leaves the cells of the buffer as they are
append(a, element) ==
    [a EXCEPT !.size_ = a.size_ + 1,
              !.data_ = IF ~a.data_.null /\ a.size_ < Len(a.data_.cells)
                        THEN [a.data_ EXCEPT !.cells[a.size_ + 1] = element]
                        ELSE a.data_]

WritesOutside(a) == a.data_.null \/ a.size_ >= Len(a.data_.cells)

\* T &operator[](int i): assert(i < size_); return data_[i];
\* a read outside the buffer gives any value
IndexOutcomes(a, i) ==
    IF ~a.data_.null /\ 0 <= i /\ i < Len(a.data_.cells)
    THEN { a.data_.cells[i + 1] }
    ELSE Elements \cup {Uninitialized}

ArrayInit ==
    /\ array = PersistentArray
    /\ caller \in { CallerEntry(ndebug) : ndebug \in BOOLEAN }

ArrayOff ==
    /\ array = PersistentArray
    /\ caller = CallerIdle

KernelIdle == UnpackOff /\ ArrayOff

(***************************************************************************)
(* Initial states                                                           *)
(***************************************************************************)
EnumInit ==
    /\ enumCases \in BitEnums
    /\ symbol \in 0 .. (Pow2(EnumWidth) - 1)
    /\ str = EmptyStr
    /\ sym = None
    /\ ephase = "init"

EnumIdle ==
    /\ enumCases = <<>>
    /\ symbol = 0
    /\ str = EmptyStr
    /\ sym = None
    /\ ephase = "off"

GenInit ==
    /\ defs = <<>>
    /\ utils = <<>>
    /\ serFn = <<>>
    /\ dSerFn = <<>>
    /\ deserFn = <<>>
    /\ dDesFn = <<>>
    /\ os = EmptyOutput
    /\ gpc = "start"
    /\ dispatched = NotDispatched

GenIdle ==
    /\ defs = <<>>
    /\ utils = <<>>
    /\ serFn = <<>>
    /\ dSerFn = <<>>
    /\ deserFn = <<>>
    /\ dDesFn = <<>>
    /\ os = EmptyOutput
    /\ gpc = "off"
    /\ dispatched = NotDispatched

(***************************************************************************)
(* Bit-enum actions                                                         *)
(***************************************************************************)
\* a call of the generated symbol-to-string function
StringifyBitEnum ==
    /\ ephase = "init"
    /\ str' = SymToStrFnForBitEnum(enumCases, separator, symbol)
    /\ ephase' = "stringified"
    /\ UNCHANGED <<enumCases, symbol, sym>>
    /\ UNCHANGED genVars
    /\ UNCHANGED <<codecVars, kernelVars>>

\* a call of the generated string-to-symbol function on the string returned
SymbolizeBitEnum ==
    /\ ephase = "stringified"
    /\ sym' = StrToSymFnForBitEnum(enumCases, separator, str)
    /\ ephase' = "symbolized"
    /\ UNCHANGED <<enumCases, symbol, str>>
    /\ UNCHANGED genVars
    /\ UNCHANGED <<codecVars, kernelVars>>

EnumNext ==
    \/ StringifyBitEnum
    \/ SymbolizeBitEnum

InitEnum == EnumInit /\ GenIdle /\ CodecIdle /\ KernelIdle

SpecEnum == InitEnum /\ [][EnumNext]_vars

(***************************************************************************)
(* Generator actions (emitSerializationFns)                                 *)
(***************************************************************************)
\* emitSourceFileHeader, declareOpcodeFn and the two initDispatch...Fn calls
EmitHeader ==
    /\ gpc = "start"
    /\ os' = [os EXCEPT !.header = TRUE]
    /\ gpc' = "loop"
    /\ UNCHANGED <<defs, utils, serFn, dSerFn, deserFn, dDesFn, dispatched>>
    /\ UNCHANGED enumVars
    /\ UNCHANGED <<codecVars, kernelVars>>

\* one iteration of "for (const auto *def : defs)"
ProcessDef(op) ==
    LET name == Len(defs) + 1
        ser == emitSerializationFunction(op)
        des == emitDeserializationFunction(op)
    IN  /\ gpc = "loop"
        /\ Len(defs) < MaxDefs
        /\ defs' = Append(defs, Summary(op, name))
        /\ IF ~op.hasOpcode
           THEN UNCHANGED <<utils, serFn, dSerFn, deserFn, dDesFn, gpc>>
           ELSE /\ utils' = Append(utils, name)
                /\ IF ser = "fatal"
                   THEN /\ gpc' = "fatal"
                        /\ UNCHANGED <<serFn, dSerFn, deserFn, dDesFn>>
                   ELSE /\ serFn' = IF ser = "ok" THEN Append(serFn, name) ELSE serFn
                        /\ dSerFn' = Append(dSerFn, name)
                        /\ IF des = "fatal"
                           THEN /\ gpc' = "fatal"
                                /\ UNCHANGED <<deserFn, dDesFn>>
                           ELSE /\ deserFn' = IF des = "ok" THEN Append(deserFn, name)
                                              ELSE deserFn
                                /\ dDesFn' = Append(dDesFn, [opcode |-> name, name |-> name])
                                /\ UNCHANGED gpc
        /\ UNCHANGED <<os, dispatched>>
        /\ UNCHANGED enumVars
        /\ UNCHANGED <<codecVars, kernelVars>>

\* the end of the loop: the two finalize calls, then the strings go to os
WriteOutput ==
    /\ gpc = "loop"
    /\ os' = [header |-> os.header, utils |-> utils, serFn |-> serFn,
              deserFn |-> deserFn,
              dSerFn |-> finalizeDispatchSerializationFn(dSerFn),
              dDesFn |-> finalizeDispatchDeserializationFn(dDesFn),
              closed |-> TRUE]
    /\ gpc' = "done"
    /\ UNCHANGED <<defs, utils, serFn, dSerFn, deserFn, dDesFn, dispatched>>
    /\ UNCHANGED enumVars
    /\ UNCHANGED <<codecVars, kernelVars>>

\* a call of the generated decode router
DispatchDeserialization(opcode) ==
    /\ gpc = "done"
    /\ dispatched = NotDispatched
    /\ dispatched' = dispatchToAutogenDeserialization(os.dDesFn, opcode)
    /\ UNCHANGED <<defs, utils, serFn, dSerFn, deserFn, dDesFn, os, gpc>>
    /\ UNCHANGED enumVars
    /\ UNCHANGED <<codecVars, kernelVars>>

Opcodes == 0 .. (MaxDefs + 1)

GenNext ==
    \/ EmitHeader
    \/ \E op \in OpDefs : ProcessDef(op)
    \/ WriteOutput
    \/ \E opcode \in Opcodes : DispatchDeserialization(opcode)

InitGen == GenInit /\ EnumIdle /\ CodecIdle /\ KernelIdle

SpecGen == InitGen /\ [][GenNext]_vars

(***************************************************************************)
(* Deserializer actions: Deserializer::processOp<Op>(words)                 *)
(***************************************************************************)
DeserializeResultType ==
    /\ dec.pc = "type"
    /\ dec' = DecResultType(opDef, words, dec)
    /\ UNCHANGED <<opDef, serVars, words, valueMap, decorations>>
    /\ UNCHANGED <<enumVars, genVars, kernelVars>>

DeserializeResultID ==
    /\ dec.pc = "id"
    /\ dec' = DecResultID(opDef, words, dec)
    /\ UNCHANGED <<opDef, serVars, words, valueMap, decorations>>
    /\ UNCHANGED <<enumVars, genVars, kernelVars>>

DeserializeOperand ==
    /\ dec.pc = "arg"
    /\ opDef.args[dec.i].isOperand
    /\ dec' = DecOperand(opDef, words, valueMap, dec)
    /\ UNCHANGED <<opDef, serVars, words, valueMap, decorations>>
    /\ UNCHANGED <<enumVars, genVars, kernelVars>>

DeserializeAttribute ==
    /\ dec.pc = "arg"
    /\ ~opDef.args[dec.i].isOperand
    /\ dec' = DecAttribute(opDef, words, dec)
    /\ UNCHANGED <<opDef, serVars, words, valueMap, decorations>>
    /\ UNCHANGED <<enumVars, genVars, kernelVars>>

CheckWordsProcessed ==
    /\ dec.pc = "check"
    /\ dec' = DecCheckWords(opDef, words, dec)
    /\ UNCHANGED <<opDef, serVars, words, valueMap, decorations>>
    /\ UNCHANGED <<enumVars, genVars, kernelVars>>

ImportDecorations ==
    /\ dec.pc = "decorate"
    /\ dec' = DecImportDecorations(decorations, dec)
    /\ UNCHANGED <<opDef, serVars, words, valueMap, decorations>>
    /\ UNCHANGED <<enumVars, genVars, kernelVars>>

\* opBuilder.create<Op>(...); if (hasResult) valueMap[valueID] = op.getResult();
CreateOp ==
    /\ dec.pc = "create"
    /\ dec' = DecCreate(dec)
    /\ valueMap' = IF opDef.numResults = 1
                   THEN [id \in DOMAIN valueMap \cup {dec.valueID} |->
                            IF id = dec.valueID THEN ResultValue ELSE valueMap[id]]
                   ELSE valueMap
    /\ UNCHANGED <<opDef, serVars, words, decorations>>
    /\ UNCHANGED <<enumVars, genVars, kernelVars>>

DeserializerNext ==
    \/ DeserializeResultType
    \/ DeserializeResultID
    \/ DeserializeOperand
    \/ DeserializeAttribute
    \/ CheckWordsProcessed
    \/ ImportDecorations
    \/ CreateOp

(***************************************************************************)
(* Serializer actions: Serializer::processOp<Op>(op)                        *)
(***************************************************************************)
SerializeResult ==
    /\ enc.pc = "result"
    /\ enc' = EncResult(opDef, node, nextID, enc)
    /\ IF processType(node.type) = 0
       THEN UNCHANGED <<nextID, valueIDMap>>
       ELSE /\ nextID' = nextID + 1
            /\ valueIDMap' = [v \in DOMAIN valueIDMap \cup {ResultValue} |->
                                 IF v = ResultValue THEN nextID ELSE valueIDMap[v]]
    /\ UNCHANGED <<opDef, node, functions, decorates, desVars>>
    /\ UNCHANGED <<enumVars, genVars, kernelVars>>

SerializeOperand ==
    /\ enc.pc = "arg"
    /\ opDef.args[enc.i].isOperand
    /\ enc' = EncOperand(opDef, node, valueIDMap, enc)
    /\ UNCHANGED <<opDef, node, valueIDMap, nextID, functions, decorates, desVars>>
    /\ UNCHANGED <<enumVars, genVars, kernelVars>>

SerializeAttribute ==
    /\ enc.pc = "arg"
    /\ ~opDef.args[enc.i].isOperand
    /\ enc' = EncAttribute(opDef, node, enc)
    /\ UNCHANGED <<opDef, node, valueIDMap, nextID, functions, decorates, desVars>>
    /\ UNCHANGED <<enumVars, genVars, kernelVars>>

EncodeInstruction ==
    /\ enc.pc = "encode"
    /\ functions' = Append(functions, [opcode |-> SessionOpcode, words |-> enc.operands])
    /\ enc' = EncInstruction(opDef, enc)
    /\ UNCHANGED <<opDef, node, valueIDMap, nextID, decorates, desVars>>
    /\ UNCHANGED <<enumVars, genVars, kernelVars>>

ProcessDecorations ==
    /\ enc.pc = "decorate"
    /\ LET r == EncDecorations(node, enc)
       IN  /\ decorates' = decorates \o r.emitted
           /\ enc' = [enc EXCEPT !.pc = "done", !.status = r.status,
                                 !.errors = IF r.status = "failure"
                                            THEN Append(enc.errors, "UnsupportedDecoration")
                                            ELSE enc.errors]
    /\ UNCHANGED <<opDef, node, valueIDMap, nextID, functions, desVars>>
    /\ UNCHANGED <<enumVars, genVars, kernelVars>>

SerializerNext ==
    \/ SerializeResult
    \/ SerializeOperand
    \/ SerializeAttribute
    \/ EncodeInstruction
    \/ ProcessDecorations

\* the deserializer reaches the instruction: the values serialized before it
\* are in valueMap under their <id>s, the decorate records in decorations
DecorationTable(records) ==
    [id \in { records[j].id : j \in DOMAIN records } |->
        LET RECURSIVE Of(_)
            Of(j) == IF j > Len(records) THEN <<>>
                     ELSE IF records[j].id = id THEN <<records[j].attr>> \o Of(j + 1)
                     ELSE Of(j + 1)
        IN  Of(1)]

BeginDeserialize ==
    /\ enc.pc = "done"
    /\ enc.status = "success"
    /\ dec.pc = "off"
    /\ words' = functions[Len(functions)].words
    /\ dec' = DecEntry(opDef)
    /\ valueMap' = [id \in { InitialIDs[v] : v \in DOMAIN InitialIDs } |->
                       CHOOSE v \in DOMAIN InitialIDs : InitialIDs[v] = id]
    /\ decorations' = DecorationTable(decorates)
    /\ UNCHANGED <<opDef, serVars>>
    /\ UNCHANGED <<enumVars, genVars, kernelVars>>

RoundTripNext ==
    \/ SerializerNext
    \/ BeginDeserialize
    \/ DeserializerNext

InitRoundTrip == RoundTripInit /\ EnumIdle /\ GenIdle /\ KernelIdle

Spec == InitRoundTrip /\ [][RoundTripNext]_vars

\* an OpDecorate instruction of the stream is processed, before or after the
\* instruction of the op
RegisterDecoration(id, name) ==
    /\ dec.pc \in {"off", "done"}
    /\ id \in DOMAIN decorations =>
          \A j \in DOMAIN decorations[id] : decorations[id][j].name # name
    /\ decorations' = processDecorationWords(decorations, id,
                                              NamedAttr(name, IntegerAttr(30)))
    /\ UNCHANGED <<opDef, serVars, words, dec, valueMap>>
    /\ UNCHANGED <<enumVars, genVars, kernelVars>>

\* the instruction of the op is reached: processOp<Op>(words) is called
CallProcessOp ==
    /\ dec.pc = "off"
    /\ dec' = DecEntry(opDef)
    /\ UNCHANGED <<opDef, serVars, words, valueMap, decorations>>
    /\ UNCHANGED <<enumVars, genVars, kernelVars>>

SessionNext ==
    \/ \E id \in DecoratedIDs, name \in DecorationNames : RegisterDecoration(id, name)
    \/ CallProcessOp
    \/ DeserializerNext

InitSession == SessionInit /\ EnumIdle /\ GenIdle /\ KernelIdle

SpecSession == InitSession /\ [][SessionNext]_vars

InitStream == StreamInit /\ EnumIdle /\ GenIdle /\ KernelIdle

SpecStream == InitStream /\ [][DeserializerNext]_vars

(***************************************************************************)
(* xcore_utils.h actions                                                    *)
(***************************************************************************)
\* one test of the loop of unpack<T> and what follows it
Unpack ==
    /\ unp.pc = "loop"
    /\ \E shifted \in (IF unp.i < sizeofT
                       THEN ShiftOutcomes(buffer[unp.i + 1], 8 * unp.i)
                       ELSE { Zero(SizeofInt) }) :
          unp' = UnpackStep(sizeofT, buffer, unp, shifted)
    /\ UNCHANGED <<sizeofT, buffer, array, caller>>
    /\ UNCHANGED <<enumVars, genVars, codecVars>>

InitUnpack == UnpackInit /\ ArrayOff /\ EnumIdle /\ GenIdle /\ CodecIdle

SpecUnpack == InitUnpack /\ [][Unpack]_vars

Allocate(n) ==
    /\ caller.pc = "on"
    /\ LET failed == allocateAssertion(array, caller, n)
           seen == [caller EXCEPT !.misused = @ \/ caller.allocated \/ n <= 0,
                                  !.allocated = TRUE,
                                  !.limit = n]
       IN  IF failed # "none"
           THEN /\ caller' = Abort(seen, failed)
                /\ UNCHANGED array
           ELSE /\ caller' = seen
                /\ array' = allocate(array, n)
    /\ UNCHANGED <<sizeofT, buffer, unp>>
    /\ UNCHANGED <<enumVars, genVars, codecVars>>

AppendElement(element) ==
    /\ caller.pc = "on"
    /\ caller.appends <= MaxSize
    /\ LET seen == [caller EXCEPT !.misused = @ \/ ~caller.allocated
                                                \/ caller.appends >= caller.limit,
                                  !.appends = @ + 1]
       IN  IF AssertFails(caller, array.size_ < array.max_size_)
           THEN /\ caller' = Abort(seen, "size_ < max_size_")
                /\ UNCHANGED array
           ELSE /\ caller' = [seen EXCEPT !.corrupted = @ \/ WritesOutside(array)]
                /\ array' = append(array, element)
    /\ UNCHANGED <<sizeofT, buffer, unp>>
    /\ UNCHANGED <<enumVars, genVars, codecVars>>

Index(i) ==
    /\ caller.pc = "on"
    /\ LET seen == [caller EXCEPT !.misused = @ \/ i < 0 \/ i >= array.size_]
       IN  IF AssertFails(caller, i < array.size_)
           THEN caller' = Abort(seen, "i < size_")
           ELSE \E v \in IndexOutcomes(array, i) : caller' = [seen EXCEPT !.read = v]
    /\ UNCHANGED array
    /\ UNCHANGED <<sizeofT, buffer, unp>>
    /\ UNCHANGED <<enumVars, genVars, codecVars>>

ArrayNext ==
    \/ \E n \in 0 .. MaxSize : Allocate(n)
    \/ \E element \in Elements : AppendElement(element)
    \/ \E i \in (0 - 1) .. MaxSize : Index(i)

InitArray == ArrayInit /\ UnpackOff /\ EnumIdle /\ GenIdle /\ CodecIdle

SpecArray == InitArray /\ [][ArrayNext]_vars

(***************************************************************************)
(* Bit-enum claims (SpecEnum)                                               *)
(***************************************************************************)
\* the bits of v that no declared enumerant covers
UnknownBits(v) ==
    { k \in EnumBits : Bit(v, k) = 1 /\ \A i \in DOMAIN enumCases : enumCases[i].value # Pow2(k) }

Stringified == ephase \in {"stringified", "symbolized"}

\* C5: for a value whose set bits are all covered by declared non-zero
\* cases, the string-to-symbol function applied to the string the
\* symbol-to-string function returned gives the value back; the string for 0
\* is "None", which parses to 0.
C5_BitFlagRoundTrip ==
    /\ (Stringified /\ symbol = 0) => str = NoneStr
    /\ (ephase = "symbolized" /\ UnknownBits(symbol) = {}) => sym = Some(symbol)

C5_Witness ==
    /\ ephase = "symbolized"
    /\ UnknownBits(symbol) = {}
    /\ symbol = 5
    /\ str = BitSymbol(2) \o separator \o BitSymbol(0)
    /\ sym = Some(5)

\* C6: for a value with at least one bit no declared case covers, the
\* symbol-to-string function returns the empty string, also when the value
\* has known bits set too.
C6_UnknownBitsSentinel ==
    (Stringified /\ UnknownBits(symbol) # {}) => str = EmptyStr

C6_Witness ==
    /\ Stringified
    /\ UnknownBits(symbol) # {}
    /\ \E k \in EnumBits : Bit(symbol, k) = 1 /\ k \notin UnknownBits(symbol)
    /\ str = EmptyStr

(***************************************************************************)
(* Generator claims (SpecGen)                                               *)
(***************************************************************************)
Names(seq) == { seq[i] : i \in DOMAIN seq }
CaseNames(cases) == { cases[i].name : i \in DOMAIN cases }

\* C4: the generated decode router, called with an opcode that no definition
\* in the router claims, fails with UnhandledOpcode carrying that opcode and
\* hands the words to no processOp.
C4_OpcodeTotality ==
    ( /\ gpc = "done"
      /\ dispatched.result # "none"
      /\ \A i \in DOMAIN defs :
            ~(defs[i].hasOpcode /\ defs[i].opcode = dispatched.opcode) )
    => /\ dispatched.result = "UnhandledOpcode"
       /\ dispatched.name = 0

C4_Witness ==
    /\ gpc = "done"
    /\ dispatched.result = "UnhandledOpcode"
    /\ Len(defs) = 2
    /\ defs[1].hasOpcode /\ defs[1].autogenSerialization
    /\ ~defs[2].hasOpcode
    /\ dispatched.opcode = defs[2].opcode

\* C9 as stated: a definition has a branch in the encode router and a case
\* in the decode router exactly when it has hasOpcode and
\* autogenSerialization both set, so every router entry names a generated
\* function.
C9_RouterMembership_Original ==
    gpc = "done" =>
        \A i \in DOMAIN defs :
            LET both == defs[i].hasOpcode /\ defs[i].autogenSerialization
            IN  /\ (defs[i].name \in Names(os.dSerFn.branches)) <=> both
                /\ (defs[i].name \in CaseNames(os.dDesFn.cases)) <=> both

\* C9 (amended): a definition has a branch in the encode router and a case
\* in the decode router exactly when it has hasOpcode set; a processOp body
\* is generated for it exactly when it has autogenSerialization set as well.
C9_RouterMembership ==
    gpc = "done" =>
        \A i \in DOMAIN defs :
            LET both == defs[i].hasOpcode /\ defs[i].autogenSerialization
            IN  /\ (defs[i].name \in Names(os.dSerFn.branches)) <=> defs[i].hasOpcode
                /\ (defs[i].name \in CaseNames(os.dDesFn.cases)) <=> defs[i].hasOpcode
                /\ (defs[i].name \in Names(os.serFn)) <=> both
                /\ (defs[i].name \in Names(os.deserFn)) <=> both

C9_Witness ==
    /\ gpc = "done"
    /\ Len(defs) = 2
    /\ defs[1].hasOpcode /\ ~defs[1].autogenSerialization
    /\ defs[2].hasOpcode /\ defs[2].autogenSerialization
    /\ Names(os.dSerFn.branches) = {1, 2}
    /\ Names(os.serFn) = {2}

Malformed(d) ==
    /\ d.hasOpcode
    /\ d.autogenSerialization
    /\ d.shapeDefect

\* C10: once the run has iterated a definition with hasOpcode and
\* autogenSerialization that has more than one result, an attribute of an
\* unsupported kind or a variadic operand that is not the last argument, the
\* run has ended in a fatal error, and no processOp body and no router has
\* been written to the output stream.
C10_SchemaErrorsAreFatal ==
    (\E i \in DOMAIN defs : Malformed(defs[i]))
    => /\ gpc = "fatal"
       /\ os.serFn = <<>> /\ os.deserFn = <<>>
       /\ os.dSerFn.branches = <<>> /\ os.dDesFn.cases = <<>>
       /\ ~os.closed

C10_Witness ==
    /\ gpc = "fatal"
    /\ Len(defs) = 2
    /\ defs[1].hasOpcode /\ defs[1].autogenSerialization /\ ~Malformed(defs[1])
    /\ Malformed(defs[2])
    /\ serFn = <<1, 2>> /\ deserFn = <<1>>
    /\ os.serFn = <<>>

(***************************************************************************)
(* Deserializer claims (SpecStream)                                         *)
(***************************************************************************)
Front(w) == SubSeq(w, 1, Len(w) - 1)

\* processOp<Op>(w) run from entry to return in a deserializer that has read
\* what came before the instruction
FreshRun(w) == DecRun(opDef, w, StreamValues, decorations, DecEntry(opDef))

Returned == dec.pc = "done"

\* the words of an instruction that has a word for the result type, for the
\* result <id> and for each argument
FullLength(o) == 2 * o.numResults + Len(o.args)

\* an argument that reads every word left: a variadic operand, an array
ReadsRemaining(arg) ==
    IF arg.isOperand THEN arg.isVariadic
    ELSE arg.attr.baseDefName = "I32ArrayAttr"

HasReadsRemaining(o) == \E i \in DOMAIN o.args : ReadsRemaining(o.args[i])

\* C2 as stated: when processOp<Op> accepts a word list, it rejects that
\* list with one more word at the end as TrailingData and creates no op.
C2_TrailingData_Original ==
    ( /\ Returned
      /\ Len(words) >= 1
      /\ FreshRun(Front(words)).status = "success" )
    => /\ dec.status = "TrailingData"
       /\ ~dec.created.built

\* C2 (amended): for an op with no variadic operand and no array attribute,
\* when processOp<Op> accepts a word list that has a word for every argument,
\* it rejects that list with one more word at the end as TrailingData and
\* creates no op.
C2_TrailingData ==
    ( /\ Returned
      /\ ~HasReadsRemaining(opDef)
      /\ Len(words) = FullLength(opDef) + 1
      /\ FreshRun(Front(words)).status = "success" )
    => /\ dec.status = "TrailingData"
       /\ ~dec.created.built

C2_Witness ==
    /\ Returned
    /\ opDef.numResults = 1
    /\ Len(opDef.args) = 2
    /\ opDef.args[1].isOperand /\ ~opDef.args[2].isOperand
    /\ ~HasReadsRemaining(opDef)
    /\ Len(words) = 5
    /\ FreshRun(Front(words)).status = "success"
    /\ dec.status = "TrailingData"
    /\ dec.wordIndex = 4

\* the last argument is one each operation must have: an operand that is not
\* variadic, an attribute that is not optional
LastArgRequired(o) ==
    /\ Len(o.args) > 0
    /\ LET arg == o.args[Len(o.args)]
       IN  IF arg.isOperand THEN ~arg.isVariadic ELSE ~arg.attr.isOptional

\* the words are those of an accepted instruction with a word for every
\* argument, less its last word
LastWordMissing ==
    /\ Len(words) + 1 = FullLength(opDef)
    /\ \E x \in StreamWords : FreshRun(Append(words, x)).status = "success"

\* C3 as stated: processOp<Op> rejects as TruncatedStream a word list that
\* lacks its last required word: the result type, the result <id>, or the
\* word of the last required argument.
C3_Truncation_Original ==
    ( /\ Returned
      /\ \/ opDef.numResults = 1 /\ Len(opDef.args) = 0
         \/ LastArgRequired(opDef)
      /\ LastWordMissing )
    => /\ dec.status = "TruncatedStream"
       /\ ~dec.created.built

\* C3 (amended): for an op with a result, processOp<Op> rejects as
\* TruncatedStream, creating no op, the empty word list (no result type) and
\* a one-word list whose word is the <id> of a type (no result <id>); a word
\* list that lacks only the word of the last argument is accepted, and the
\* op is created without that argument.
C3_Truncation ==
    /\ ( /\ Returned
         /\ opDef.numResults = 1
         /\ \/ Len(words) = 0
            \/ Len(words) = 1 /\ getType(words[1]) # NullType )
       => /\ dec.status = "TruncatedStream"
          /\ ~dec.created.built
    /\ ( /\ Returned
         /\ Len(opDef.args) > 0
         /\ LastWordMissing )
       => /\ dec.status = "success"
          /\ dec.created.built

C3_Witness ==
    /\ Returned
    /\ opDef.numResults = 1
    /\ Len(opDef.args) = 2
    /\ Len(words) = 1
    /\ getType(words[1]) # NullType
    /\ dec.status = "TruncatedStream"

C3_WitnessLastArg ==
    /\ Returned
    /\ opDef.numResults = 1
    /\ LastArgRequired(opDef)
    /\ LastWordMissing
    /\ dec.status = "success"

(***************************************************************************)
(* Serializer and round-trip claims (Spec)                                  *)
(***************************************************************************)
Encoded == enc.pc = "done"

RECURSIVE Flatten(_)
Flatten(groups) == IF groups = <<>> THEN <<>> ELSE Head(groups) \o Flatten(Tail(groups))

AttrSet(attrs) == { attrs[j] : j \in DOMAIN attrs }

\* every value the operation uses has an <id> when its operand is serialized
OperandsDefined(nd) ==
    \A j \in DOMAIN Flatten(nd.operands) : Flatten(nd.operands)[j] \in DOMAIN InitialIDs

\* the words the layout gives the arguments from position i on, the operands
\* being the groups from k on
RECURSIVE ArgLayout(_, _, _, _)
ArgLayout(o, nd, i, k) ==
    IF i > Len(o.args) THEN <<>>
    ELSE IF o.args[i].isOperand
    THEN [j \in DOMAIN nd.operands[k] |-> InitialIDs[nd.operands[k][j]]]
         \o ArgLayout(o, nd, i + 1, k + 1)
    ELSE LET attr == getAttr(nd, ArgNames[i])
         IN  (IF attr = NullAttr THEN <<>>
              ELSE IF attr.isArray THEN attr.elems
              ELSE <<attr.value>>)
             \o ArgLayout(o, nd, i + 1, k)

Layout(o, nd) ==
    (IF o.numResults = 1 THEN <<TypeIDs[nd.type], InitialNextID>> ELSE <<>>)
    \o ArgLayout(o, nd, 1, 1)

\* C8: processOp<Op> returns failure when an operand of the operation,
\* variadic or not, is a value that has no <id> in valueIDMap (the result
\* type being one processType resolves).
C8_UseBeforeDef ==
    ( /\ Encoded
      /\ node.type # "unsupported"
      /\ ~OperandsDefined(node) )
    => enc.status = "failure"

\* C7: when processOp<Op> returns success, every value the operation uses has
\* an <id>, and the words of the instruction are the result type <id> and the
\* new result <id> (for an op with a result), then for each argument in
\* declaration order: the <id> of each value of an operand, the value of a
\* scalar or enum attribute that is present, each element of an array
\* attribute that is present, nothing for an attribute that is absent.
C7_WordLayout ==
    ( /\ Encoded
      /\ enc.status = "success" )
    => /\ OperandsDefined(node)
       /\ functions[Len(functions)].words = Layout(opDef, node)

\* the layout of C7 where no value lacks an <id>: this much holds
LayoutOfDefinedOperands ==
    ( /\ Encoded
      /\ enc.status = "success"
      /\ OperandsDefined(node) )
    => functions[Len(functions)].words = Layout(opDef, node)

\* the attributes of the operation are ones the instruction and its
\* decorations can carry: an op without a result has no <id> to decorate
WellFormed(o, nd) ==
    /\ OperandsDefined(nd)
    /\ o.numResults = 0 => \A j \in DOMAIN nd.attrs : nd.attrs[j].name \notin ExtraNames

\* C1: Deserializer::processOp<Op> on the words Serializer::processOp<Op>
\* wrote for a well-formed operation creates an operation with the same
\* result type, the same named attributes and the same operands in the same
\* order.
C1_RoundTrip ==
    ( /\ Returned
      /\ Encoded
      /\ WellFormed(opDef, node) )
    => /\ dec.status = "success"
       /\ dec.created.built
       /\ dec.created.resultTypes = (IF opDef.numResults = 1 THEN <<node.type>> ELSE <<>>)
       /\ dec.created.operands = Flatten(node.operands)
       /\ AttrSet(dec.created.attributes) = AttrSet(node.attrs)

(***************************************************************************)
(* xcore_utils.h claims (SpecUnpack, SpecArray)                             *)
(***************************************************************************)
\* C11: unpack<T>(buffer) returns the integer of type T whose byte i, least
\* significant first, is buffer[i] for every i below sizeof(T), with no bit
\* set that comes from elsewhere, for T of 1, 2, 4 and 8 bytes.
C11_Unpack ==
    unp.pc = "returned"
    => unp.retval = [k \in 1 .. sizeofT |-> buffer[k]]

\* the same for the types no wider than int: this much holds
UnpackUpToInt ==
    (unp.pc = "returned" /\ sizeofT <= SizeofInt)
    => unp.retval = [k \in 1 .. sizeofT |-> buffer[k]]

\* no call is outside the use the class is written for: one allocate with
\* max_size > 0, then at most max_size appends, operator[] below size
ValidUse == ~caller.misused

\* C15: while the array is default-constructed, allocated once with
\* max_size > 0, appended to at most max_size times and indexed only below
\* its size, no assertion of the class fails and size_ <= max_size_.
C15_PersistentArray ==
    ValidUse
    => /\ caller.failed = "none"
       /\ array.size_ <= array.max_size_

\* the same in a build with NDEBUG, where no assertion is evaluated, once
\* the array is allocated: this much holds
ValidUseWithoutAssertions ==
    (ValidUse /\ caller.ndebug /\ caller.allocated)
    => /\ array.size_ <= array.max_size_
       /\ ~caller.corrupted

(***************************************************************************)
(* Decoration claims (Spec, SpecSession)                                    *)
(***************************************************************************)
\* the names of the attribute arguments of an op
AttrArgNames(o) == { ArgNames[i] : i \in { j \in DOMAIN o.args : ~o.args[j].isOperand } }

\* one record under the <id> for each attribute that is no argument
RECURSIVE DecorateRecords(_, _, _, _)
DecorateRecords(o, attrs, j, id) ==
    IF j > Len(attrs) THEN <<>>
    ELSE (IF attrs[j].name \in AttrArgNames(o) THEN <<>>
          ELSE <<[id |-> id, attr |-> attrs[j]]>>)
         \o DecorateRecords(o, attrs, j + 1, id)

\* C13: when Serializer::processOp<Op> returns success for an op with one
\* result, the decorate records emitted are one record for each attribute of
\* the operation whose name is not that of an attribute argument of the op,
\* each under the result <id> allocated in the call, and none for the
\* attributes written as words; for an op without a result there are none.
C13_EncoderDecorations ==
    ( /\ Encoded
      /\ enc.status = "success" )
    => decorates = IF opDef.numResults = 1
                   THEN DecorateRecords(opDef, node.attrs, 1, InitialNextID)
                   ELSE <<>>

C13_Witness ==
    /\ Encoded
    /\ enc.status = "success"
    /\ opDef.numResults = 1
    /\ \E j \in DOMAIN node.attrs : node.attrs[j].name \in AttrArgNames(opDef)
    /\ Len(decorates) = 1
    /\ decorates[1].id = InitialNextID
    /\ decorates[1].id = functions[1].words[2]
    /\ decorates[1].attr.name = "d1"

(***************************************************************************)
(* Cursor claim (SpecStream)                                                *)
(***************************************************************************)
\* C14: while Deserializer::processOp<Op> runs, on any words, the empty list
\* too, 0 <= wordIndex <= words.size(), every words[wordIndex] read is at an
\* index below words.size(), and wordIndex never decreases.
C14_CursorSafety ==
    /\ [](/\ 0 <= dec.wordIndex
          /\ dec.wordIndex <= Len(words)
          /\ \A j \in DOMAIN dec.reads : dec.reads[j] < Len(words))
    /\ [][dec'.wordIndex >= dec.wordIndex]_vars

\* every word of a list read, an array attribute among the arguments
C14_Witness ==
    /\ Returned
    /\ dec.status = "success"
    /\ opDef.numResults = 1
    /\ HasReadsRemaining(opDef)
    /\ Len(words) >= 4
    /\ dec.wordIndex = Len(words)
    /\ dec.reads = [j \in 1 .. Len(words) |-> j - 1]

(***************************************************************************)
(* Decoration merge claim (SpecSession)                                     *)
(***************************************************************************)
\* the attributes registered under the result <id> of the frame
Registered(d) ==
    IF d.valueID \in DOMAIN decorations THEN AttrSet(decorations[d.valueID]) ELSE {}

\* C12 as stated: the operation created for a result <id> has the attributes
\* of every record registered under that <id> in the session, registered
\* before or after the call of processOp<Op>.
C12_DecorationMerge_Original ==
    ( /\ Returned
      /\ dec.status = "success"
      /\ opDef.numResults = 1 )
    => Registered(dec) \subseteq AttrSet(dec.created.attributes)

\* C12 (amended): when processOp<Op> creates the operation of an op with one
\* result, the operation has the attributes of every record registered under
\* its result <id> until then; once it has returned, the operation it created
\* does not change, whatever is registered afterwards.
C12_DecorationMerge ==
    [][ /\ ( /\ dec.pc = "create"
             /\ dec'.pc = "done"
             /\ opDef.numResults = 1 )
           => Registered(dec) \subseteq AttrSet(dec'.created.attributes)
        /\ dec.pc = "done" => dec'.created = dec.created ]_vars

\* one attribute registered before the call and merged, one registered after
\* it and not merged
C12_Witness ==
    /\ Returned
    /\ dec.status = "success"
    /\ opDef.numResults = 1
    /\ dec.valueID \in DOMAIN decorations
    /\ Len(decorations[dec.valueID]) = 2
    /\ decorations[dec.valueID][1] \in AttrSet(dec.created.attributes)
    /\ decorations[dec.valueID][2] \notin AttrSet(dec.created.attributes)

====
